---- MODULE Spec2Model ----
(***************************************************************************)
(* The agent loop of gradio_chat.py: chat_fn (one user turn: model call,   *)
(* tool dispatch, follow-up call), set_model and execute_command, over the *)
(* module-level message list and model identifier.                         *)
(***************************************************************************)
EXTENDS Integers, Sequences, FiniteSets, TLC

\* ---------------------------------------------------------------- bounds
MaxTurns == 2       \* chat_fn invocations per behaviour
MaxIds == 2         \* tool-call requests the endpoint emits per behaviour

\* The request threads that can run chat_fn.
Threads == {1, 2}
\* With the queue's default settings one worker runs the chat event.
ChatWorker == CHOOSE t \in Threads : \A s \in Threads : t <= s

\* ------------------------------------------------------- values and inputs
DefaultModel == "meta-llama/llama-3.3-70b-instruct"
Models == {DefaultModel, "deepseek/deepseek-v3.2-exp"}

ToolNames == {"read_file", "write_file", "write_files", "run_commands"}

UserInputs == {"list files"}
\* A command line as its characters.
Commands == {<<" ", " ">>, <<" ", "l", "s">>}
\* What the sandbox answers to one operation: a result, or a failure (an
\* exception of the SDK).
SandboxReplies == {"ok", "fail"}

NoId == 0
NoContent == "None"
SandboxError == "sandbox unavailable"
FileContent == "a.txt contents"
Stdout == "a.txt"
Path == "a.txt"

\* The raw argument payload of a request, as the text the endpoint sends:
\* json says what the text parses to, keys are the keys of a JSON object,
\* files is the kind of value under the key "files".
MalformedArgs == [json |-> "malformed", keys |-> {}, files |-> "none"]
ObjArgs(K) == [json |-> "object", keys |-> K,
               files |-> IF "files" \in K THEN "list" ELSE "none"]

Req(n, a) == [name |-> n, arguments |-> a]

\* The (name, arguments) pairs the endpoint is taken to emit: one accepted
\* call per registered tool, an unknown tool, a payload whose keys are not
\* the tool's parameters and a payload that is not JSON.
Requests ==
    { Req("read_file", ObjArgs({"path"})),
      Req("write_file", ObjArgs({"path", "data"})),
      Req("write_files", ObjArgs({"files"})),
      Req("run_commands", ObjArgs({"command"})),
      Req("delete_file", ObjArgs({"path"})),
      Req("run_commands", ObjArgs({"path"})),
      Req("delete_file", MalformedArgs) }

VARIABLES
    messages,     \* the module-level list `messages`
    model,        \* the module-level `model`
    pc,           \* pc[t]: where thread t is in chat_fn
    assistant_msg,\* assistant_msg[t]: chat_fn's local
    idx,          \* idx[t]: position of the for loop over tool_calls
    outcome,      \* outcome[k]: how the chat_fn call of turn k ended
    turn,         \* turn[t]: number of the turn thread t runs or ran last
    trace,        \* trace[t]: model calls and sandbox operations of that turn
    msgTurn,      \* msgTurn[i]: the turn that appended messages[i]
    nturns,       \* turns started
    nextId,       \* next tool-call identifier the endpoint hands out
    cmd           \* the sandbox operations of the last execute_command call

vars == <<messages, model, pc, assistant_msg, idx, outcome, turn, trace,
          msgTurn, nturns, nextId, cmd>>

\* ------------------------------------------------------------- messages
UserMsg(u) ==
    [role |-> "user", content |-> u, tool_calls |-> <<>>, tool_call_id |-> NoId]
AssistantMsg(c, calls) ==
    [role |-> "assistant", content |-> c, tool_calls |-> calls,
     tool_call_id |-> NoId]
ToolMsg(id, c) ==
    [role |-> "tool", content |-> c, tool_calls |-> <<>>, tool_call_id |-> id]

NoMsg == AssistantMsg(NoContent, <<>>)
Running == [status |-> "running", value |-> NoContent]
Returned(v) == [status |-> "returned", value |-> v]
Raised(e) == [status |-> "raised", value |-> e]

\* A call of the endpoint: its model, whether the tool schema goes with it,
\* and the list it is given, recorded as the length the list has then.
ModelEvent(m, withTools, ms) ==
    [ev |-> "model", model |-> m, tools |-> withTools, nsent |-> Len(ms),
     op |-> "none", id |-> NoId]
SandboxEvent(o, id) ==
    [ev |-> "sandbox", model |-> "none", tools |-> FALSE, nsent |-> 0,
     op |-> o, id |-> id]

\* ------------------------------------------------------- tool functions
\* What a call of a tool function gives: raised is the exception that leaves
\* it ("none": it returned result), ops the sandbox operations it issued.
Ret(v, ops) == [raised |-> "none", result |-> v, ops |-> ops]
Throw(e, ops) == [raised |-> e, result |-> NoContent, ops |-> ops]

read_file(r) ==
    IF r = "fail" THEN Ret("Error reading file: " \o SandboxError, <<"readFile">>)
    ELSE Ret(FileContent, <<"readFile">>)

write_file(r) ==
    IF r = "fail" THEN Ret("Error writing file: " \o SandboxError, <<"writeFile">>)
    ELSE Ret("File created successfully at " \o Path, <<"writeFile">>)

\* len(files) of the first print is evaluated outside the try block.
write_files(files, r) ==
    IF files # "list" THEN Throw("TypeError", <<>>)
    ELSE IF r = "fail"
         THEN Ret("Error writing multiple files: " \o SandboxError, <<"writeFiles">>)
         ELSE Ret("1 file(s) created successfully", <<"writeFiles">>)

run_commands(r) ==
    IF r = "fail" THEN Ret("Error running command: " \o SandboxError, <<"runCommand">>)
    ELSE Ret(Stdout, <<"runCommand">>)

\* The parameters of each tool function; none has a default.
Params(name) ==
    CASE name = "read_file" -> {"path"}
      [] name = "write_file" -> {"path", "data"}
      [] name = "write_files" -> {"files"}
      [] name = "run_commands" -> {"command"}
      [] OTHER -> {}

\* json.loads of the payload text.
json_loads(a) ==
    IF a.json = "malformed" THEN Throw("JSONDecodeError", <<>>)
    ELSE Ret(a, <<>>)

\* fn(**fn_args): ** needs a mapping, and the keys must be the parameters.
CallTool(name, fn_args, r) ==
    IF fn_args.json # "object" \/ fn_args.keys # Params(name)
    THEN Throw("TypeError", <<>>)
    ELSE CASE name = "read_file" -> read_file(r)
           [] name = "write_file" -> write_file(r)
           [] name = "write_files" -> write_files(fn_args.files, r)
           [] name = "run_commands" -> run_commands(r)

\* One iteration of the loop over tool_calls, up to fn_result.
RunToolCall(tool_call, r) ==
    LET fn_name == tool_call.name
        decoded == json_loads(tool_call.arguments)
    IN  IF decoded.raised # "none" THEN decoded
        ELSE IF fn_name \in ToolNames
             THEN CallTool(fn_name, decoded.result, r)
             ELSE Ret("Error: Unknown tool " \o fn_name, <<>>)

\* A slip: the message is built without the request's identifier.
ToolResultMsg_noid(tool_call, fn_result) == ToolMsg(NoId, fn_result)
\* The message the loop appends for a request.
ToolResultMsg(tool_call, fn_result) == ToolMsg(tool_call.id, fn_result)

\* command.strip() on a sequence of characters.
RECURSIVE LStrip(_)
LStrip(c) == IF c # <<>> /\ Head(c) = " " THEN LStrip(Tail(c)) ELSE c
RECURSIVE RStrip(_)
RStrip(c) ==
    IF c # <<>> /\ c[Len(c)] = " " THEN RStrip(SubSeq(c, 1, Len(c) - 1)) ELSE c
\* A slip: the command is tested as typed, without strip().
Strip_none(c) == c
Strip(c) == RStrip(LStrip(c))

\* ----------------------------------------------------------------- Init
Init ==
    /\ messages = <<>>
    /\ model = DefaultModel
    /\ pc = [t \in Threads |-> "idle"]
    /\ assistant_msg = [t \in Threads |-> NoMsg]
    /\ idx = [t \in Threads |-> 0]
    /\ outcome = <<>>
    /\ turn = [t \in Threads |-> 0]
    /\ trace = [t \in Threads |-> <<>>]
    /\ msgTurn = <<>>
    /\ nturns = 0
    /\ nextId = 1
    /\ cmd = <<>>

\* ------------------------------------------------------------ the endpoint
\* The requests of one response, with the identifiers the endpoint gives them.
WithIds(reqs, first) ==
    [k \in 1 .. Len(reqs) |->
        [id |-> first + k - 1, name |-> reqs[k].name,
         arguments |-> reqs[k].arguments]]

RequestSeqs(n) == UNION { [1 .. k -> Requests] : k \in 1 .. n }

\* The assistant messages a model call can return while `left` identifiers
\* remain: text only, or tool-call requests.
Responses(left) ==
    {AssistantMsg("answer", <<>>)}
        \cup { AssistantMsg(NoContent, WithIds(reqs, nextId)) :
                 reqs \in RequestSeqs(left) }

\* What the answer-only call can return: text, or text with a request the
\* endpoint emits although no tool schema was sent.
FollowUpResponses(left) ==
    {AssistantMsg("final answer", <<>>)}
        \cup { AssistantMsg("final answer", WithIds(<<q>>, nextId)) :
                 q \in IF left > 0 THEN {Req("run_commands", ObjArgs({"command"}))}
                                  ELSE {} }

IdsLeft == MaxIds + 1 - nextId

\* ------------------------------------------------------------- chat_fn
\* A slip: the message is put in front of the list.
StoreAppend_front(ms, m) == <<m>> \o ms
\* messages.append(m).
StoreAppend(ms, m) == Append(ms, m)

\* A slip: the follow-up request carries the tool schema too.
FollowUpRequest_tools(m, ms) == ModelEvent(m, TRUE, ms)
\* A slip: the first request names the model the module started with.
InitialRequest_default(m, ms) == ModelEvent(DefaultModel, TRUE, ms)
\* The two requests to the endpoint: model, messages and, in the first, tools.
InitialRequest(m, ms) == ModelEvent(m, TRUE, ms)
FollowUpRequest(m, ms) == ModelEvent(m, FALSE, ms)

\* A slip: chat_fn returns the first response's content whatever it carries.
AfterInitial_direct(msg) == "idle"
\* Where chat_fn goes once assistant_msg is appended.
AfterInitial(msg) == IF msg.tool_calls # <<>> THEN "dispatch" ELSE "idle"
\* A slip: the follow-up call sits inside the loop body.
AfterToolCall_inloop(i, n) == "call_follow_up"
\* A slip: after a tool call the model is asked again, as in a loop that
\* re-examines every response.
AfterToolCall_restart(i, n) == "call_initial"
\* Where the loop goes after the request at position i of n.
AfterToolCall(i, n) == IF i < n THEN "dispatch" ELSE "call_follow_up"

\* A slip: the exception is caught and chat_fn returns an empty answer.
Propagate_swallow(t, e) ==
    /\ pc' = [pc EXCEPT ![t] = "idle"]
    /\ outcome' = [outcome EXCEPT ![turn[t]] = Returned("")]

\* An exception leaves chat_fn: nothing catches it.
Propagate(t, e) ==
    /\ pc' = [pc EXCEPT ![t] = "idle"]
    /\ outcome' = [outcome EXCEPT ![turn[t]] = Raised(e)]

\* line 143: the user message is appended.
ChatStart(t, u) ==
    /\ pc[t] = "idle"
    /\ nturns < MaxTurns
    /\ nturns' = nturns + 1
    /\ turn' = [turn EXCEPT ![t] = nturns + 1]
    /\ messages' = StoreAppend(messages, UserMsg(u))
    /\ msgTurn' = Append(msgTurn, nturns + 1)
    /\ pc' = [pc EXCEPT ![t] = "call_initial"]
    /\ outcome' = Append(outcome, Running)
    /\ trace' = [trace EXCEPT ![t] = <<>>]
    /\ assistant_msg' = [assistant_msg EXCEPT ![t] = NoMsg]
    /\ idx' = [idx EXCEPT ![t] = 0]
    /\ UNCHANGED <<model, nextId, cmd>>

\* lines 146-150: the request goes out with the model and the list as they
\* are now.
InitialCall(t) ==
    /\ pc[t] = "call_initial"
    /\ trace' = [trace EXCEPT ![t] = Append(@, InitialRequest(model, messages))]
    /\ pc' = [pc EXCEPT ![t] = "await_initial"]
    /\ UNCHANGED <<messages, model, assistant_msg, idx, outcome, turn, msgTurn,
                   nturns, nextId, cmd>>

\* lines 152-157, 189-192: the response is appended; without requests its
\* content is returned.
InitialReturn(t, resp) ==
    /\ pc[t] = "await_initial"
    /\ nextId' = nextId + Len(resp.tool_calls)
    /\ assistant_msg' = [assistant_msg EXCEPT ![t] = resp]
    /\ messages' = StoreAppend(messages, resp)
    /\ msgTurn' = Append(msgTurn, turn[t])
    /\ pc' = [pc EXCEPT ![t] = AfterInitial(resp)]
    /\ idx' = [idx EXCEPT ![t] = IF AfterInitial(resp) = "dispatch" THEN 1 ELSE 0]
    /\ outcome' = [outcome EXCEPT ![turn[t]] =
                     IF AfterInitial(resp) = "idle" THEN Returned(resp.content)
                     ELSE @]
    /\ UNCHANGED <<model, turn, trace, nturns, cmd>>

\* client.chat.completions.create raises (network, auth, rate limit).
ModelCallFails(t) ==
    /\ pc[t] \in {"await_initial", "await_follow_up"}
    /\ Propagate(t, "ModelCallError")
    /\ UNCHANGED <<messages, model, assistant_msg, idx, turn, trace, msgTurn,
                   nturns, nextId, cmd>>

\* lines 160-180: one iteration of the loop; r is the sandbox's answer.
ToolCallStep(t, r) ==
    /\ pc[t] = "dispatch"
    /\ LET calls == assistant_msg[t].tool_calls
           tool_call == calls[idx[t]]
           res == RunToolCall(tool_call, r)
           ops == [k \in 1 .. Len(res.ops) |-> SandboxEvent(res.ops[k], tool_call.id)]
       IN  /\ trace' = [trace EXCEPT ![t] = @ \o ops]
           /\ IF res.raised # "none"
              THEN /\ Propagate(t, res.raised)
                   /\ UNCHANGED <<messages, msgTurn, idx>>
              ELSE /\ messages' = StoreAppend(messages, ToolResultMsg(tool_call, res.result))
                   /\ msgTurn' = Append(msgTurn, turn[t])
                   /\ pc' = [pc EXCEPT ![t] = AfterToolCall(idx[t], Len(calls))]
                   /\ idx' = [idx EXCEPT ![t] = @ + 1]
                   /\ UNCHANGED outcome
    /\ UNCHANGED <<model, assistant_msg, turn, nturns, nextId, cmd>>

\* lines 182-185: the answer-only request.
FollowUpCall(t) ==
    /\ pc[t] = "call_follow_up"
    /\ trace' = [trace EXCEPT ![t] = Append(@, FollowUpRequest(model, messages))]
    /\ pc' = [pc EXCEPT ![t] = "await_follow_up"]
    /\ UNCHANGED <<messages, model, assistant_msg, idx, outcome, turn, msgTurn,
                   nturns, nextId, cmd>>

\* lines 186-188, 192: the final answer is appended and its content returned.
FollowUpReturn(t, resp) ==
    /\ pc[t] = "await_follow_up"
    /\ nextId' = nextId + Len(resp.tool_calls)
    /\ messages' = StoreAppend(messages, resp)
    /\ msgTurn' = Append(msgTurn, turn[t])
    /\ pc' = [pc EXCEPT ![t] = "idle"]
    /\ outcome' = [outcome EXCEPT ![turn[t]] = Returned(resp.content)]
    /\ UNCHANGED <<model, assistant_msg, idx, turn, trace, nturns, cmd>>

\* ------------------------------------------------- the operator surface
\* The dropdown's change event calls it with the newly selected value.
set_model(selected_model) ==
    /\ selected_model # model
    /\ model' = selected_model
    /\ UNCHANGED <<messages, pc, assistant_msg, idx, outcome, turn, trace,
                   msgTurn, nturns, nextId, cmd>>

execute_command(command) ==
    /\ IF Strip(command) = <<>>
       THEN cmd' = <<>>
       ELSE \E r \in SandboxReplies : cmd' = run_commands(r).ops
    /\ UNCHANGED <<messages, model, pc, assistant_msg, idx, outcome, turn,
                   trace, msgTurn, nturns, nextId>>

\* ------------------------------------------------------- specification
Chat(t) ==
    \/ \E u \in UserInputs : ChatStart(t, u)
    \/ InitialCall(t)
    \/ \E resp \in Responses(IdsLeft) : InitialReturn(t, resp)
    \/ ModelCallFails(t)
    \/ \E r \in SandboxReplies : ToolCallStep(t, r)
    \/ FollowUpCall(t)
    \/ \E resp \in FollowUpResponses(IdsLeft) : FollowUpReturn(t, resp)

Operator ==
    \/ \E m \in Models : set_model(m)
    \/ \E c \in Commands : execute_command(c)

Next == Chat(ChatWorker) \/ Operator

Spec == Init /\ [][Next]_vars

\* A step of a chat_fn call that has started.
TurnStep(t) == pc[t] # "idle" /\ Chat(t)

\* The turns of the chat worker alone. set_model and execute_command are
\* left out: they change model and cmd only and never move pc, so they
\* neither end nor hold up a turn.
TurnNext == Chat(ChatWorker)

\* A started chat_fn call keeps running on its thread, and every call of
\* the endpoint and of the sandbox comes back, with a result or an exception.
FairSpec == Init /\ [][TurnNext]_vars /\ WF_vars(TurnStep(ChatWorker))

\* chat_fn takes no lock: when the server runs two chat requests at once
\* (a request of the API endpoint beside one of the page, or a raised
\* concurrency limit), their steps interleave. These are the behaviours of
\* two such requests alone, without set_model and execute_command, which do
\* not touch the message list.
OverlapNext == \E t \in Threads : Chat(t)

OverlapSpec == Init /\ [][OverlapNext]_vars

\* ------------------------------------------------ reading the history
IsTool(m) == m.role = "tool"
IsAssistant(m) == m.role = "assistant"
IsModelCall(e) == e.ev = "model"
IsSandboxOp(e) == e.ev = "sandbox"

\* The messages turn k appended, in store order.
TurnStore(k) ==
    LET F[i \in 0 .. Len(messages)] ==
            IF i = 0 THEN <<>>
            ELSE IF msgTurn[i] = k THEN Append(F[i - 1], messages[i])
                 ELSE F[i - 1]
    IN  F[Len(messages)]

Turns == 1 .. nturns
Ended(k) == outcome[k].status # "running"
\* The requests of turn k's initial assistant message, its second message.
CallsOf(k) ==
    IF Len(TurnStore(k)) >= 2 THEN TurnStore(k)[2].tool_calls ELSE <<>>
ToolMsgsOf(k) == SelectSeq(TurnStore(k), IsTool)
ModelCalls(t) == SelectSeq(trace[t], IsModelCall)
SandboxOps(t) == SelectSeq(trace[t], IsSandboxOp)
Ids(calls) == { calls[j].id : j \in 1 .. Len(calls) }
IsPrefix(a, b) == Len(a) <= Len(b) /\ SubSeq(b, 1, Len(a)) = a
\* The messages given to the i-th event of thread t's trace, a model call.
Sent(t, i) == SubSeq(messages, 1, trace[t][i].nsent)

\* ------------------------------------------------------------------ C2
\* C2: the message store is append-only: over every step (of a chat turn,
\* completed or failed, of set_model, of execute_command) the store before
\* the step is a prefix of the store after it.
C2_AppendOnly == [][IsPrefix(messages, messages')]_vars

\* A store that grew over a failed turn and a later turn, with the model
\* changed and a command run in between.
C2_Witness ==
    /\ Len(messages) >= 4
    /\ \E k \in Turns : outcome[k].status = "raised"
    /\ model # DefaultModel
    /\ cmd # <<>>

\* ------------------------------------------------------------------ C7
\* C7: every tool-role message's tool_call_id is the identifier of a request
\* carried by an assistant message earlier in the store.
C7_BackReference ==
    \A i \in 1 .. Len(messages) :
        IsTool(messages[i]) =>
            \E j \in 1 .. i - 1 :
                /\ IsAssistant(messages[j])
                /\ messages[i].tool_call_id \in Ids(messages[j].tool_calls)

\* Two tool-role messages of one batch are in the store.
C7_Witness ==
    \E i, j \in 1 .. Len(messages) :
        /\ i < j
        /\ IsTool(messages[i]) /\ IsTool(messages[j])
        /\ msgTurn[i] = msgTurn[j]

\* ------------------------------------------------------------------ C6
\* C6: within one turn chat_fn makes at most two model calls, the first with
\* the tool schema and the second without it; the sandbox operations of the
\* turn form one batch between the two calls, each for a request of the
\* initial assistant message and none for a request twice; nothing follows the
\* second call, so requests carried by its response are never executed and
\* cause no further call.
C6_SingleRound ==
    \A t \in Threads :
        LET tr == trace[t]
            calls == { i \in 1 .. Len(tr) : IsModelCall(tr[i]) }
            ops == { i \in 1 .. Len(tr) : IsSandboxOp(tr[i]) }
        IN  /\ Cardinality(calls) <= 2
            /\ \A i \in calls : i = 1 \/ i = Len(tr)
            /\ \A i \in calls : tr[i].tools = (i = 1)
            /\ \A i \in ops : tr[i].id \in Ids(assistant_msg[t].tool_calls)
            /\ \A i, j \in ops : i < j => tr[i].id < tr[j].id
            /\ Cardinality(calls) = 2 => pc[t] \in {"await_follow_up", "idle"}

\* A turn has returned whose follow-up response carried a request.
C6_Witness ==
    \E t \in Threads :
        /\ pc[t] = "idle" /\ turn[t] > 0
        /\ outcome[turn[t]].status = "returned"
        /\ Len(ModelCalls(t)) = 2
        /\ SandboxOps(t) # <<>>
        /\ messages[Len(messages)].tool_calls # <<>>

\* ----------------------------------------------------------------- C10
\* C10: when the follow-up call of a turn is issued, the message sequence it
\* is given holds a tool-role message for every request of the turn's
\* assistant message, and it is the whole store.
C10_FollowUpPrecondition ==
    \A t \in Threads :
        \A i \in 2 .. Len(trace[t]) :
            IsModelCall(trace[t][i]) =>
                LET sent == Sent(t, i)
                IN  /\ \A id \in Ids(assistant_msg[t].tool_calls) :
                           \E p \in 1 .. Len(sent) :
                               IsTool(sent[p]) /\ sent[p].tool_call_id = id
                    /\ pc[t] = "await_follow_up" => sent = messages

\* The follow-up call of a turn with two requests is in flight.
C10_Witness ==
    \E t \in Threads :
        /\ pc[t] = "await_follow_up"
        /\ Len(assistant_msg[t].tool_calls) = 2

\* ------------------------------------------------------------------ C8
\* A model call of thread t's turn did not return: the turn is over with
\* fewer assistant messages than model calls.
ModelCallFailed(t) ==
    /\ pc[t] = "idle" /\ turn[t] > 0
    /\ Len(ModelCalls(t)) > Len(SelectSeq(TurnStore(turn[t]), IsAssistant))

\* C8 as claimed: when a model call of a turn fails, the failure reaches the
\* caller, the turn's user message is in the store and no assistant or
\* tool-role message of the turn is.
C8_NoPartialTurn ==
    \A t \in Threads :
        ModelCallFailed(t) =>
            /\ outcome[turn[t]] = Raised("ModelCallError")
            /\ Len(TurnStore(turn[t])) = 1
            /\ TurnStore(turn[t])[1].role = "user"

\* C8 as amended: when a model call of a turn fails, the failure reaches the
\* caller and nothing more is appended: after a failed initial call the store
\* holds of the turn its user message alone; after a failed follow-up call it
\* holds the user message, the assistant message and the tool-role messages
\* of all its requests, and no final assistant message.
C8_NoAppendAfterFailure ==
    \A t \in Threads :
        ModelCallFailed(t) =>
            LET ts == TurnStore(turn[t])
                calls == assistant_msg[t].tool_calls
            IN  /\ outcome[turn[t]] = Raised("ModelCallError")
                /\ ts[1].role = "user"
                /\ IF Len(ModelCalls(t)) = 1
                   THEN Len(ts) = 1
                   ELSE /\ Len(ts) = 2 + Len(calls)
                        /\ ts[2] = assistant_msg[t]
                        /\ \A j \in 1 .. Len(calls) :
                               /\ IsTool(ts[2 + j])
                               /\ ts[2 + j].tool_call_id = calls[j].id

\* The follow-up call of a turn has failed.
C8_Witness ==
    \E t \in Threads : ModelCallFailed(t) /\ Len(ModelCalls(t)) = 2

\* ------------------------------------------------- the dispatch loop
\* The payload of request c cannot be decoded, or decodes to something the
\* named tool function does not accept.
BadArgs(c) ==
    \/ c.arguments.json = "malformed"
    \/ /\ c.name \in ToolNames
       /\ \/ c.arguments.json # "object"
          \/ c.arguments.keys # Params(c.name)

\* The strings the tool functions return when the sandbox fails.
SandboxErrorTexts ==
    { read_file("fail").result, write_file("fail").result,
      write_files("list", "fail").result, run_commands("fail").result }
\* A sandbox operation of turn k failed.
SandboxFailedIn(k) ==
    \E i \in 1 .. Len(ToolMsgsOf(k)) : ToolMsgsOf(k)[i].content \in SandboxErrorTexts

\* The tool-role messages of turn k answer its requests one for one, in order.
AnsweredInOrder(k) ==
    /\ Len(ToolMsgsOf(k)) = Len(CallsOf(k))
    /\ \A j \in 1 .. Len(CallsOf(k)) :
           ToolMsgsOf(k)[j].tool_call_id = CallsOf(k)[j].id
\* Turn k ended with a follow-up answer appended after its tool-role messages.
Completed(k) ==
    /\ outcome[k].status = "returned"
    /\ Len(TurnStore(k)) = Len(CallsOf(k)) + 3
    /\ IsAssistant(TurnStore(k)[Len(TurnStore(k))])

\* ------------------------------------------------------------------ C1
\* C1: for every turn whose initial assistant message carries N >= 1
\* requests, chat_fn appends exactly one tool-role message per request, the
\* k-th carrying the identifier of the k-th request.
C1_OrderPreservation ==
    \A k \in Turns : (Ended(k) /\ CallsOf(k) # <<>>) => AnsweredInOrder(k)

\* ------------------------------------------------------------------ C3
\* C3: in a turn in which a sandbox operation failed (and no model call did),
\* every request is answered by a tool-role message, no failure reaches the
\* caller and the turn completes with the follow-up answer appended.
C3_FailureIsolation ==
    \A k \in Turns :
        (Ended(k) /\ SandboxFailedIn(k) /\ outcome[k] # Raised("ModelCallError"))
            => (AnsweredInOrder(k) /\ Completed(k))

\* ------------------------------------------------------------------ C4
\* C4: a request whose payload cannot be decoded, or is not what the tool
\* function accepts, gets a tool-role message with its identifier, and
\* chat_fn does not raise.
C4_DecodeFailureIsValue ==
    \A k \in Turns :
        Ended(k) =>
            \A j \in 1 .. Len(CallsOf(k)) :
                BadArgs(CallsOf(k)[j]) =>
                    /\ outcome[k].status # "raised"
                    /\ \E i \in 1 .. Len(ToolMsgsOf(k)) :
                           ToolMsgsOf(k)[i].tool_call_id = CallsOf(k)[j].id

\* ------------------------------------------------------------------ C5
\* C5: a request naming no registered tool gets a tool-role message with its
\* identifier that says the tool is unknown; chat_fn does not raise (unless a
\* model call fails), and the other requests and the follow-up call proceed.
C5_UnknownTool ==
    \A k \in Turns :
        (Ended(k) /\ outcome[k] # Raised("ModelCallError")) =>
            \A j \in 1 .. Len(CallsOf(k)) :
                CallsOf(k)[j].name \notin ToolNames =>
                    /\ AnsweredInOrder(k) /\ Completed(k)
                    /\ ToolMsgsOf(k)[j].content =
                           "Error: Unknown tool " \o CallsOf(k)[j].name

\* ------------------------------------------------------------------ C9
\* C9: at the model call of a turn, every request of an assistant message
\* left by an earlier turn that raised has a tool-role message with its
\* identifier in the sequence given to the model.
C9_ResumableStore ==
    \A t \in Threads :
        pc[t] = "await_initial" =>
            LET sent == Sent(t, 1)
            IN  \A i \in 1 .. Len(sent) :
                    (IsAssistant(sent[i]) /\ outcome[msgTurn[i]].status = "raised")
                        => \A id \in Ids(sent[i].tool_calls) :
                               \E p \in 1 .. Len(sent) :
                                   IsTool(sent[p]) /\ sent[p].tool_call_id = id

\* What holds of the loop when no payload of the batch is bad: every request
\* is answered in order, an unknown tool by the text naming it, whatever the
\* sandbox answers, and only a failed follow-up call keeps the turn from
\* completing.
AcceptedArgsLemma ==
    \A k \in Turns :
        (/\ Ended(k) /\ CallsOf(k) # <<>>
         /\ \A j \in 1 .. Len(CallsOf(k)) : ~BadArgs(CallsOf(k)[j]))
            => /\ AnsweredInOrder(k)
               /\ Completed(k) \/ outcome[k] = Raised("ModelCallError")
               /\ \A j \in 1 .. Len(CallsOf(k)) :
                      CallsOf(k)[j].name \notin ToolNames =>
                          ToolMsgsOf(k)[j].content =
                              "Error: Unknown tool " \o CallsOf(k)[j].name

\* ----------------------------------------------------------------- C11
\* C11: a turn that returned and whose initial assistant message carries
\* N >= 1 requests appended exactly N + 3 messages: the user message, the
\* assistant message with the requests, N tool-role messages and the final
\* assistant message, in that order; a turn that returned and whose assistant
\* message carries no request appended exactly 2: user, then assistant.
C11_TranscriptShape ==
    \A k \in Turns :
        outcome[k].status = "returned" =>
            LET ts == TurnStore(k)
                n == Len(CallsOf(k))
            IN  /\ Len(ts) = IF n = 0 THEN 2 ELSE n + 3
                /\ ts[1].role = "user"
                /\ IsAssistant(ts[2])
                /\ \A j \in 1 .. n : IsTool(ts[2 + j])
                /\ IsAssistant(ts[Len(ts)])
                /\ \A i \in 1 .. Len(ts) : IsAssistant(ts[i]) => i \in {2, Len(ts)}

\* A turn with two requests and a turn with none have both returned.
C11_Witness ==
    \E k, l \in Turns :
        /\ outcome[k].status = "returned" /\ Len(CallsOf(k)) = 2
        /\ Len(TurnStore(k)) = 5
        /\ outcome[l].status = "returned" /\ CallsOf(l) = <<>>
        /\ Len(TurnStore(l)) = 2

\* ----------------------------------------------------------------- C12
\* C12: the messages one turn appends, from its user message to its final
\* assistant message, are a contiguous block of the store: no message of
\* another turn lies between two messages of the same turn, also when turns
\* overlap with each other, with set_model and with execute_command.
C12_ContiguousTurns ==
    \A i, j \in 1 .. Len(messages) :
        (i < j /\ msgTurn[i] = msgTurn[j]) =>
            \A p \in i .. j : msgTurn[p] = msgTurn[i]

\* ----------------------------------------------------------------- C13
\* C13: a step that changes the active model (set_model) changes nothing
\* else, the message store included; and the initial model call of a turn
\* is made with the active model as it is when the call is issued, that is
\* with the m of the last set_model(m) before it (the module's default when
\* there was none), given the whole store.
C13_ModelSelection ==
    [][ /\ model' # model =>
              UNCHANGED <<messages, pc, assistant_msg, idx, outcome, turn,
                          trace, msgTurn, nturns, nextId, cmd>>
        /\ \A m \in Models : set_model(m) => model' = m
        /\ \A t \in Threads :
               (pc[t] = "call_initial" /\ pc'[t] = "await_initial") =>
                   /\ Len(trace'[t]) = 1
                   /\ IsModelCall(trace'[t][1])
                   /\ trace'[t][1].model = model
                   /\ trace'[t][1].nsent = Len(messages)
      ]_vars

\* The initial call of a second turn is in flight with a model selected
\* through set_model, the messages of the first turn still in the store.
C13_Witness ==
    \E t \in Threads :
        /\ turn[t] = 2 /\ pc[t] = "await_initial"
        /\ model # DefaultModel
        /\ trace[t][1].model = model
        /\ Len(messages) >= 3

\* ----------------------------------------------------------------- C14
\* C14: execute_command calls no model and leaves the message store and the
\* active model as they are: a step that changes the record of its sandbox
\* operations changes nothing else. For a command that is empty or all
\* whitespace it issues no sandbox operation, for any other command exactly
\* one, a runCommand.
C14_CommandBypass ==
    [][ /\ cmd' # cmd =>
              UNCHANGED <<messages, model, pc, assistant_msg, idx, outcome,
                          turn, trace, msgTurn, nturns, nextId>>
        /\ \A c \in Commands :
               execute_command(c) =>
                   cmd' = IF \A i \in 1 .. Len(c) : c[i] = " "
                          THEN <<>> ELSE <<"runCommand">>
      ]_vars

\* A command has run while no turn ever started: one runCommand, no model
\* call, an empty store, the default model.
C14_Witness ==
    /\ cmd = <<"runCommand">>
    /\ messages = <<>>
    /\ model = DefaultModel
    /\ \A t \in Threads : trace[t] = <<>> /\ pc[t] = "idle"

\* ----------------------------------------------------------------- C15
\* Thread t's turn is over and its initial model call had returned a response.
TurnOverWithResponse(t) ==
    /\ pc[t] = "idle" /\ turn[t] > 0
    /\ Len(TurnStore(turn[t])) >= 2
\* The follow-up call of thread t's turn was made.
FollowUpMade(t) == Len(ModelCalls(t)) = 2

\* C15: in every turn whose initial model call returned, the follow-up call
\* is made if and only if the initial response carries at least one request;
\* the value chat_fn returns is then the content of the follow-up assistant
\* message, and otherwise the content of the initial one.
C15_Branching ==
    \A t \in Threads :
        TurnOverWithResponse(t) =>
            LET ts == TurnStore(turn[t])
                out == outcome[turn[t]]
            IN  /\ FollowUpMade(t) <=> assistant_msg[t].tool_calls # <<>>
                /\ out.status = "returned" =>
                       out.value = IF assistant_msg[t].tool_calls # <<>>
                                   THEN ts[Len(ts)].content
                                   ELSE assistant_msg[t].content

\* What holds of the branch: the follow-up call is made only for a response
\* with requests, and in a turn that returned it was made exactly when the
\* response carried requests, the returned value being the content of the
\* last assistant message of the turn.
BranchingLemma ==
    \A t \in Threads :
        TurnOverWithResponse(t) =>
            LET ts == TurnStore(turn[t])
                out == outcome[turn[t]]
            IN  /\ FollowUpMade(t) => assistant_msg[t].tool_calls # <<>>
                /\ out.status = "returned" =>
                       /\ FollowUpMade(t) <=> assistant_msg[t].tool_calls # <<>>
                       /\ IsAssistant(ts[Len(ts)])
                       /\ out.value = ts[Len(ts)].content
                       /\ FollowUpMade(t) <=> Len(ts) > 2

\* ----------------------------------------------------------------- C16
\* The sandbox operation each tool function issues.
SandboxOpOf(name) ==
    CASE name = "read_file" -> "readFile"
      [] name = "write_file" -> "writeFile"
      [] name = "write_files" -> "writeFiles"
      [] name = "run_commands" -> "runCommand"
      [] OTHER -> "none"
\* The positions in thread t's trace of the sandbox operations for request c.
OpsFor(t, c) ==
    { i \in 1 .. Len(trace[t]) : IsSandboxOp(trace[t][i]) /\ trace[t][i].id = c.id }
\* The sandbox operations of thread t's trace come in the order of their
\* requests, after the initial model call and before the follow-up call.
OpsInOrderBetweenCalls(t) ==
    LET tr == trace[t]
    IN  \A i \in 1 .. Len(tr) :
            IsSandboxOp(tr[i]) =>
                /\ i > 1 /\ IsModelCall(tr[1])
                /\ \A j \in i + 1 .. Len(tr) :
                       \/ IsSandboxOp(tr[j]) /\ tr[i].id < tr[j].id
                       \/ IsModelCall(tr[j]) /\ j = Len(tr)

\* C16: once a turn is over, each request of its initial assistant message
\* that names a registered tool has caused exactly one sandbox operation, of
\* the kind of that tool, and a request naming an unknown tool none; the
\* operations were issued in request order, after the initial model call and
\* before the follow-up call.
C16_OneOperationPerRequest ==
    \A t \in Threads :
        (pc[t] = "idle" /\ turn[t] > 0) =>
            LET calls == assistant_msg[t].tool_calls
            IN  /\ \A j \in 1 .. Len(calls) :
                       IF calls[j].name \in ToolNames
                       THEN /\ Cardinality(OpsFor(t, calls[j])) = 1
                            /\ \A i \in OpsFor(t, calls[j]) :
                                   trace[t][i].op = SandboxOpOf(calls[j].name)
                       ELSE OpsFor(t, calls[j]) = {}
                /\ OpsInOrderBetweenCalls(t)

\* What holds of the sandbox operations in every state: each is for a
\* request of the turn that names a registered tool and is of that tool's
\* kind, no request has more than one, a request answered by a tool-role
\* message and naming a registered tool has exactly one, and the operations
\* come in request order between the two model calls.
SandboxOpsLemma ==
    \A t \in Threads :
        LET calls == assistant_msg[t].tool_calls
            tr == trace[t]
        IN  /\ \A i \in 1 .. Len(tr) :
                   IsSandboxOp(tr[i]) =>
                       \E j \in 1 .. Len(calls) :
                           /\ calls[j].id = tr[i].id
                           /\ calls[j].name \in ToolNames
                           /\ tr[i].op = SandboxOpOf(calls[j].name)
            /\ \A j \in 1 .. Len(calls) :
                   /\ Cardinality(OpsFor(t, calls[j])) <= 1
                   /\ (calls[j].name \in ToolNames /\ turn[t] > 0
                        /\ \E p \in 1 .. Len(messages) :
                               /\ IsTool(messages[p])
                               /\ messages[p].tool_call_id = calls[j].id)
                          => Cardinality(OpsFor(t, calls[j])) = 1
            /\ OpsInOrderBetweenCalls(t)

\* ----------------------------------------------------------------- C17
\* The state of the agent loop a position of chat_fn belongs to.
StateOf(p) ==
    CASE p = "idle" -> "Idle"
      [] p \in {"call_initial", "await_initial"} -> "AwaitingModel"
      [] p = "dispatch" -> "Dispatching"
      [] p \in {"call_follow_up", "await_follow_up"} -> "AwaitingFollowUp"
      [] OTHER -> "Unknown"
\* The transitions Idle -> AwaitingModel -> (Direct | Dispatching) ->
\* AwaitingFollowUp -> Idle; Direct is the passage from AwaitingModel to Idle
\* in which the response without requests is appended and returned.
ChainStep(t) ==
    LET a == StateOf(pc[t])
        b == StateOf(pc'[t])
    IN  \/ a = b
        \/ a = "Idle" /\ b = "AwaitingModel"
        \/ a = "AwaitingModel" /\ b = "Dispatching"
        \/ /\ a = "AwaitingModel" /\ b = "Idle"
           /\ outcome'[turn[t]].status = "returned"
           /\ Len(messages') = Len(messages) + 1
        \/ a = "Dispatching" /\ b = "AwaitingFollowUp"
        \/ /\ a = "AwaitingFollowUp" /\ b = "Idle"
           /\ outcome'[turn[t]].status = "returned"
\* An exception ends the turn: from any state of a started turn to Idle.
FailureExit(t) ==
    /\ StateOf(pc[t]) # "Idle" /\ StateOf(pc'[t]) = "Idle"
    /\ outcome'[turn[t]].status = "raised"
    /\ messages' = messages
\* Every started turn ends.
TurnsEnd == \A t \in Threads : (pc[t] # "idle") ~> (pc[t] = "idle")

C18_OneModelPerTurn ==
    \A t \in Threads :
        \A i, j \in 1 .. Len(trace[t]) :
            (IsModelCall(trace[t][i]) /\ IsModelCall(trace[t][j])) =>
                trace[t][i].model = trace[t][j].model
====
